---- MODULE Spec2Model ----
(***************************************************************************)
(* influx-taggify: the line-protocol scanner (scanKey, scanFields, ...),   *)
(* parseLine / parseMap and the taggify conversion run.                    *)
(*                                                                         *)
(* A byte string is a sequence of one-byte strings.  Offsets are Go's,     *)
(* counted from 0: At(buf, i) is buf[i], Slice(buf, a, b) is buf[a:b].     *)
(* A function that returns (.., error) returns a record whose err field is *)
(* "" for a nil error, the error text otherwise, and PANIC for a run-time  *)
(* panic (index or slice bounds out of range).                             *)
(***************************************************************************)
EXTENDS Integers, Sequences, FiniteSets, TLC

VARIABLES
    arg,        \* the input handed to the function under examination
    ret,        \* what the function returned (err is NONE before the call)
    pc,         \* "call"/"return", or the section of the input taggify is in
    names,      \* taggify: the field names to promote, in caller order
    consumed,   \* taggify: the input lines the scanner has returned so far
    entries,    \* taggify: key -> timestamp -> field name -> raw value
    pending,    \* taggify: the groups the emission loops have yet to visit
    out,        \* taggify: the bytes written to the output so far
    text,       \* taggify: sc.Text(), the line of the last successful Scan
    err         \* taggify: the error returned ("" for nil)

vars == <<arg, ret, pc, names, consumed, entries, pending, out, text, err>>

NONE == "none"
PANIC == "panic"

-----------------------------------------------------------------------------
(* Bytes                                                                   *)

NUL == "NUL"
TAB == "TAB"
NL == "NL"
BS == "\\"
SP == " "
QUOTE == "\""

Ascii ==
    << " ", "!", "\"", "#", "$", "%", "&", "'", "LPAREN", "RPAREN", "STAR", "+",
       ",", "-", ".", "/", "0", "1", "2", "3", "4", "5", "6", "7", "8", "9", ":", ";",
       "<", "=", ">", "?", "@", "A", "B", "C", "D", "E", "F", "G", "H", "I",
       "J", "K", "L", "M", "N", "O", "P", "Q", "R", "S", "T", "U", "V", "W",
       "X", "Y", "Z", "[", "\\", "]", "^", "_", "BACKTICK", "a", "b", "c", "d", "e",
       "f", "g", "h", "i", "j", "k", "l", "m", "n", "o", "p", "q", "r", "s",
       "t", "u", "v", "w", "x", "y", "z", "{", "|", "}", "~" >>

\* the numeric value of a byte
ByteOf(c) ==
    CASE c = NUL -> 0
      [] c = TAB -> 9
      [] c = NL -> 10
      [] OTHER -> 31 + (CHOOSE n \in 1..Len(Ascii) : Ascii[n] = c)

At(buf, i) == buf[i + 1]
Slice(buf, a, b) == SubSeq(buf, a + 1, b)

RECURSIVE Compare(_, _)
\* bytes.Compare: -1, 0 or 1
Compare(a, b) ==
    IF a = <<>> /\ b = <<>> THEN 0
    ELSE IF a = <<>> THEN -1
    ELSE IF b = <<>> THEN 1
    ELSE IF Head(a) = Head(b) THEN Compare(Tail(a), Tail(b))
    ELSE IF ByteOf(Head(a)) < ByteOf(Head(b)) THEN -1 ELSE 1

RECURSIVE skipWhitespace(_, _)
skipWhitespace(buf, i) ==
    IF i < Len(buf) /\ At(buf, i) \in {SP, TAB, NUL}
    THEN skipWhitespace(buf, i + 1)
    ELSE i

RECURSIVE scanToEnd(_, _, _)
\* the end position of scanTo
scanToEnd(buf, i, stop) ==
    IF i >= Len(buf) THEN i
    ELSE IF At(buf, i) = stop /\ (i = 0 \/ At(buf, i - 1) # BS) THEN i
    ELSE scanToEnd(buf, i + 1, stop)

\* the block of bytes scanTo returns
scanTo(buf, i, stop) == Slice(buf, i, scanToEnd(buf, i, stop))

RECURSIVE scanToSpaceOrEnd(_, _, _)
\* the loop of scanToSpaceOr, entered with i the last byte looked at;
\* -1 stands for the index-out-of-range panic of buf[i-1]
scanToSpaceOrEnd(buf, i0, stop) ==
    LET i == i0 + 1
    IN  IF i - 1 >= Len(buf) THEN -1
        ELSE IF At(buf, i - 1) = BS THEN scanToSpaceOrEnd(buf, i, stop)
        ELSE IF i >= Len(buf) THEN i
        ELSE IF At(buf, i) = stop \/ At(buf, i) = SP THEN i
        ELSE scanToSpaceOrEnd(buf, i, stop)

\* the block of bytes scanToSpaceOr returns (PANIC when it reads past buf)
scanToSpaceOr(buf, i, stop) ==
    IF i >= Len(buf) THEN PANIC
    ELSE IF At(buf, i) = stop \/ At(buf, i) = SP THEN <<>>
    ELSE LET e == scanToSpaceOrEnd(buf, i, stop)
         IN  IF e = -1 THEN PANIC ELSE Slice(buf, i, e)

-----------------------------------------------------------------------------
(* scanKey                                                                 *)

tagKeyState == 0
tagValueState == 1
fieldsState == 2

\* make([]int, 100): the initial length of the tag index list
IndicesLen == 100

Zeros(n) == SubSeq([k \in 1..n |-> 0], 1, n)

RECURSIVE scanMeasurementLoop(_, _)
scanMeasurementLoop(buf, i0) ==
    LET i == i0 + 1
    IN  IF i >= Len(buf) THEN [state |-> -1, i |-> i, err |-> "missing fields"]
        ELSE IF At(buf, i - 1) = BS THEN scanMeasurementLoop(buf, i)
        ELSE IF At(buf, i) = "," THEN [state |-> tagKeyState, i |-> i + 1, err |-> ""]
        ELSE IF At(buf, i) = SP THEN [state |-> fieldsState, i |-> i, err |-> ""]
        ELSE scanMeasurementLoop(buf, i)

scanMeasurement(buf, i) ==
    IF i >= Len(buf) \/ At(buf, i) = ","
    THEN [state |-> -1, i |-> i, err |-> "missing measurement"]
    ELSE scanMeasurementLoop(buf, i)

RECURSIVE scanTagsKeyLoop(_, _)
scanTagsKeyLoop(buf, i0) ==
    LET i == i0 + 1
    IN  IF i >= Len(buf) \/ (At(buf, i) \in {SP, ","} /\ At(buf, i - 1) # BS)
        THEN [i |-> i, err |-> "missing tag value"]
        ELSE IF At(buf, i) = "=" /\ At(buf, i - 1) # BS
        THEN [i |-> i + 1, err |-> ""]
        ELSE scanTagsKeyLoop(buf, i)

scanTagsKey(buf, i) ==
    IF i >= Len(buf) \/ At(buf, i) \in {SP, ",", "="}
    THEN [i |-> i, err |-> "missing tag key"]
    ELSE scanTagsKeyLoop(buf, i)

RECURSIVE scanTagsValueLoop(_, _)
scanTagsValueLoop(buf, i0) ==
    LET i == i0 + 1
    IN  IF i >= Len(buf) THEN [state |-> -1, i |-> i, err |-> "missing fields"]
        ELSE IF At(buf, i) = "=" /\ At(buf, i - 1) # BS
        THEN [state |-> -1, i |-> i, err |-> "invalid tag format"]
        ELSE IF At(buf, i) = "," /\ At(buf, i - 1) # BS
        THEN [state |-> tagKeyState, i |-> i + 1, err |-> ""]
        ELSE IF At(buf, i) = SP /\ At(buf, i - 1) # BS
        THEN [state |-> fieldsState, i |-> i, err |-> ""]
        ELSE scanTagsValueLoop(buf, i)

scanTagsValue(buf, i) ==
    IF i >= Len(buf) \/ At(buf, i) \in {",", SP}
    THEN [state |-> -1, i |-> i, err |-> "missing tag value"]
    ELSE scanTagsValueLoop(buf, i)

\* the index list once the tag-key state has made room for entry `commas`
growIndices(indices, commas) ==
    IF commas >= Len(indices)
    THEN indices \o Zeros(Len(indices))
    ELSE indices

\* one round of the loop of scanTags; done marks the return
scanTagsStep(buf, s) ==
    IF s.done THEN s
    ELSE IF s.state = tagKeyState THEN
        LET grown == growIndices(s.indices, s.commas)
            ind == [grown EXCEPT ![s.commas + 1] = s.i]
            k == scanTagsKey(buf, s.i)
        IN  [state |-> tagValueState, i |-> k.i, commas |-> s.commas + 1, indices |-> ind,
             err |-> k.err, done |-> k.err # ""]
    ELSE IF s.state = tagValueState THEN
        LET v == scanTagsValue(buf, s.i)
        IN  [state |-> v.state, i |-> v.i, commas |-> s.commas, indices |-> s.indices,
             err |-> v.err, done |-> v.err # ""]
    ELSE \* fieldsState: indices[commas] = i + 1
        IF s.commas >= Len(s.indices)
        THEN [s EXCEPT !.err = PANIC, !.done = TRUE]
        ELSE [s EXCEPT !.indices = [s.indices EXCEPT ![s.commas + 1] = s.i + 1],
                       !.done = TRUE]

RECURSIVE scanTagsRounds(_, _, _)
\* n rounds of the loop of scanTags begun in state s; a round after the return
\* changes nothing.  The state after the first half of the rounds is computed
\* before the second half begins, which keeps the evaluation shallow.
scanTagsRounds(buf, s, n) ==
    IF n = 0 THEN s
    ELSE IF n = 1 THEN scanTagsStep(buf, s)
    ELSE CHOOSE r \in { scanTagsRounds(buf, half, n - (n \div 2)) :
                            half \in {scanTagsRounds(buf, s, n \div 2)} } : TRUE

\* the loop of scanTags: each round but the last takes at least one byte
scanTagsLoop(buf, i, indices, commas, state) ==
    scanTagsRounds(buf,
                   [state |-> state, i |-> i, commas |-> commas, indices |-> indices,
                    err |-> "", done |-> FALSE],
                   Len(buf) + 1)

scanTags(buf, i, indices) == scanTagsLoop(buf, i, indices, 0, tagKeyState)

\* one round of the first pass of scanKey over adjacent tags: result is
\* "unsorted" after the break and "duplicate" after the early return
checkSortedStep(buf, indices, commas, s) ==
    IF s.result # "sorted" \/ s.j >= commas - 1 THEN s
    ELSE LET left == scanTo(Slice(buf, indices[s.j + 1], indices[s.j + 2] - 1), 0, "=")
             right == scanTo(Slice(buf, indices[s.j + 2], indices[s.j + 3] - 1), 0, "=")
             cmp == Compare(left, right)
         IN  IF cmp > 0 THEN [j |-> s.j, result |-> "unsorted"]
             ELSE IF cmp = 0 THEN [j |-> s.j, result |-> "duplicate"]
             ELSE [j |-> s.j + 1, result |-> "sorted"]

RECURSIVE checkSortedRounds(_, _, _, _, _)
\* n rounds of the first pass begun in state s, halved like scanTagsRounds
checkSortedRounds(buf, indices, commas, s, n) ==
    IF n = 0 THEN s
    ELSE IF n = 1 THEN checkSortedStep(buf, indices, commas, s)
    ELSE CHOOSE r \in { checkSortedRounds(buf, indices, commas, half, n - (n \div 2)) :
                            half \in {checkSortedRounds(buf, indices, commas, s, n \div 2)} } :
             TRUE

\* the first pass of scanKey over adjacent tags, from pair j on:
\* "sorted", "unsorted" (the break) or "duplicate" (the early return)
checkSorted(buf, indices, commas, j) ==
    checkSortedRounds(buf, indices, commas, [j |-> j, result |-> "sorted"], commas).result

lessDescending(buf, indices, i, j) ==
    Compare(scanTo(buf, indices[i + 1], "="), scanTo(buf, indices[j + 1], "=")) > 0

less(buf, indices, i, j) ==
    Compare(scanTo(buf, indices[i + 1], "="), scanTo(buf, indices[j + 1], "=")) < 0

RECURSIVE insertionSortInner(_, _, _, _)
insertionSortInner(l, buf, indices, j) ==
    IF j > l /\ less(buf, indices, j, j - 1)
    THEN insertionSortInner(l, buf,
             [indices EXCEPT ![j + 1] = indices[j], ![j] = indices[j + 1]], j - 1)
    ELSE indices

RECURSIVE insertionSortOuter(_, _, _, _, _)
insertionSortOuter(l, r, buf, indices, i) ==
    IF i < r
    THEN insertionSortOuter(l, r, buf, insertionSortInner(l, buf, indices, i), i + 1)
    ELSE indices

\* the index list after insertionSort(l, r, buf, indices)
insertionSort(l, r, buf, indices) == insertionSortOuter(l, r, buf, indices, l + 1)

RECURSIVE copyTags(_, _, _)
\* what the rebuild loop appends after the measurement (PANIC propagates)
copyTags(buf, indices, k) ==
    IF k > Len(indices) THEN <<>>
    ELSE LET v == scanToSpaceOr(buf, indices[k], ",")
             more == copyTags(buf, indices, k + 1)
         IN  IF v = PANIC \/ more = PANIC THEN PANIC ELSE <<",">> \o v \o more

\* b := make([]byte, n) with `written` copied to its front
intoBuffer(written, n) ==
    IF written = PANIC \/ Len(written) > n THEN PANIC
    ELSE written \o [k \in 1..(n - Len(written)) |-> NUL]

noDuplicateAfterSort(buf, indices, commas, j) == FALSE

RECURSIVE duplicateAfterSort(_, _, _, _)
\* the second pass of scanKey, over the sorted index list
duplicateAfterSort(buf, indices, commas, j) ==
    IF j >= commas - 1 THEN FALSE
    ELSE LET left == scanTo(Slice(buf, indices[j + 1], Len(buf)), 0, "=")
             right == scanTo(Slice(buf, indices[j + 2], Len(buf)), 0, "=")
         IN  left = right \/ duplicateAfterSort(buf, indices, commas, j + 1)

scanKey(buf, i0) ==
    LET start == skipWhitespace(buf, i0)
        m == scanMeasurement(buf, start)
        t == IF m.err = "" /\ m.state = tagKeyState
             THEN scanTags(buf, m.i, Zeros(IndicesLen))
             ELSE [i |-> m.i, commas |-> 0, indices |-> Zeros(IndicesLen), err |-> m.err]
        i == t.i
        first == checkSorted(buf, t.indices, t.commas, 0)
    IN  IF t.err = PANIC THEN [i |-> i, key |-> <<>>, err |-> PANIC]
        ELSE IF t.err # "" THEN [i |-> i, key |-> Slice(buf, start, i), err |-> t.err]
        ELSE IF first = "duplicate"
        THEN [i |-> i, key |-> Slice(buf, start, i), err |-> "duplicate tags"]
        ELSE IF first = "unsorted" /\ t.commas > 0 THEN
            LET measurement == Slice(buf, start, t.indices[1] - 1)
                indices == insertionSort(0, t.commas, buf, SubSeq(t.indices, 1, t.commas))
                tags == copyTags(buf, indices, 1)
                b == intoBuffer(IF tags = PANIC THEN PANIC ELSE measurement \o tags,
                                i - start)
            IN  IF b = PANIC THEN [i |-> i, key |-> <<>>, err |-> PANIC]
                ELSE IF duplicateAfterSort(buf, indices, t.commas, 0)
                THEN [i |-> i, key |-> b, err |-> "duplicate tags"]
                ELSE [i |-> i, key |-> b, err |-> ""]
        ELSE [i |-> i, key |-> Slice(buf, start, i), err |-> ""]

-----------------------------------------------------------------------------
(* scanNumber, scanBoolean, scanFields                                     *)

ErrInvalidNumber == "invalid number"

maxInt64Digits == 19
minInt64Digits == 20
maxFloat64Digits == 25
minFloat64Digits == 27

Digits == {"0", "1", "2", "3", "4", "5", "6", "7", "8", "9"}

isNumeric(b) == b \in Digits \/ b = "."

RECURSIVE stripZeros(_)
stripZeros(s) == IF s # <<>> /\ Head(s) = "0" THEN stripZeros(Tail(s)) ELSE s

MaxInt64 == <<"9", "2", "2", "3", "3", "7", "2", "0", "3", "6", "8", "5", "4", "7", "7",
              "5", "8", "0", "7">>
MinInt64 == <<"9", "2", "2", "3", "3", "7", "2", "0", "3", "6", "8", "5", "4", "7", "7",
              "5", "8", "0", "8">>

parseIntUnbounded(s) == TRUE

\* strconv.ParseInt(s, 10, 64) returns a nil error
parseIntBytes(s) ==
    LET neg == s # <<>> /\ Head(s) = "-"
        signed == s # <<>> /\ Head(s) \in {"-", "+"}
        body == IF signed THEN Tail(s) ELSE s
        digits == stripZeros(body)
        limit == IF neg THEN MinInt64 ELSE MaxInt64
    IN  /\ body # <<>>
        /\ \A k \in 1..Len(body) : body[k] \in Digits
        /\ \/ Len(digits) < Len(limit)
           \/ Len(digits) = Len(limit) /\ Compare(digits, limit) <= 0

RECURSIVE digitRun(_, _)
\* the end of the run of decimal digits of s that starts at offset i
digitRun(s, i) ==
    IF i < Len(s) /\ At(s, i) \in Digits THEN digitRun(s, i + 1) ELSE i

RECURSIVE decimalValue(_, _)
\* the value of a digit string, saturating at 10000 as strconv's exponent does
decimalValue(s, acc) ==
    IF s = <<>> THEN acc
    ELSE decimalValue(Tail(s), IF acc < 10000 THEN acc * 10 + (ByteOf(Head(s)) - 48) ELSE acc)

\* the leading digits of the least decimal that rounds to +Inf as a float64
\* (2^1024 - 2^970 = 1.797693134862315807937...e308)
Float64Overflow == <<"1", "7", "9", "7", "6", "9", "3", "1", "3", "4", "8", "6", "2",
                     "3", "1", "5", "8", "0", "7", "9", "3", "7">>

\* strconv.ParseFloat(s, 64) returns a nil error: s is a decimal floating-point
\* literal ([sign] digits [. digits] [e [sign] digits], a digit in the mantissa)
\* whose value does not overflow float64 (underflow is no error).  s holds only
\* bytes scanNumber lets through: digits, '.', 'e', 'E', '+', '-'.
parseFloatBytes(s) ==
    LET signed == s # <<>> /\ Head(s) \in {"-", "+"}
        m0 == IF signed THEN 1 ELSE 0
        m1 == digitRun(s, m0)
        dot == m1 < Len(s) /\ At(s, m1) = "."
        m2 == IF dot THEN digitRun(s, m1 + 1) ELSE m1
        intDigits == Slice(s, m0, m1)
        fracDigits == IF dot THEN Slice(s, m1 + 1, m2) ELSE <<>>
        sawdigits == Len(intDigits) + Len(fracDigits) > 0
        hasExp == m2 < Len(s) /\ At(s, m2) \in {"e", "E"}
        esigned == hasExp /\ m2 + 1 < Len(s) /\ At(s, m2 + 1) \in {"-", "+"}
        eneg == esigned /\ At(s, m2 + 1) = "-"
        e0 == IF esigned THEN m2 + 2 ELSE m2 + 1
        e1 == IF hasExp THEN digitRun(s, e0) ELSE m2
        expOk == ~hasExp \/ e1 > e0
        exp == IF hasExp /\ e1 > e0
               THEN (IF eneg THEN -1 ELSE 1) * decimalValue(Slice(s, e0, e1), 0)
               ELSE 0
        mant == stripZeros(intDigits \o fracDigits)
        \* the value is 0.mant * 10^point
        point == exp + Len(stripZeros(intDigits))
                 - (IF stripZeros(intDigits) = <<>>
                    THEN Len(fracDigits) - Len(stripZeros(fracDigits)) ELSE 0)
        overflow == /\ mant # <<>>
                    /\ (point > 309 \/ (point = 309 /\ Compare(mant, Float64Overflow) >= 0))
    IN  sawdigits /\ expOk /\ e1 = Len(s) /\ ~overflow

RECURSIVE scanNumberLoop(_, _, _, _, _, _)
\* the scanning loop of scanNumber: where it stops, and the flags it has set
scanNumberLoop(buf, start, i, isInt, decimal, scientific) ==
    LET stop(e) == [i |-> i, isInt |-> isInt, decimal |-> decimal,
                    scientific |-> scientific, err |-> e]
    IN  IF i >= Len(buf) THEN stop("")
        ELSE IF At(buf, i) = "," \/ At(buf, i) = SP THEN stop("")
        ELSE IF At(buf, i) = "i" /\ i > start /\ ~isInt
        THEN scanNumberLoop(buf, start, i + 1, TRUE, decimal, scientific)
        ELSE IF At(buf, i) = "." /\ decimal THEN stop(ErrInvalidNumber)
        ELSE LET dec == decimal \/ At(buf, i) = "."
             IN  IF i > start /\ At(buf, i) \in {"e", "E"}
                 THEN scanNumberLoop(buf, start, i + 1, isInt, dec, TRUE)
                 ELSE IF At(buf, i) \in {"+", "-"} /\ At(buf, i - 1) \in {"e", "E"}
                 THEN scanNumberLoop(buf, start, i + 1, isInt, dec, scientific)
                 ELSE IF i + 2 < Len(buf) /\ At(buf, i) \in {"N", "n"}
                 THEN stop(ErrInvalidNumber)
                 ELSE IF ~isNumeric(At(buf, i)) THEN stop(ErrInvalidNumber)
                 ELSE scanNumberLoop(buf, start, i + 1, isInt, dec, scientific)

\* scanNumber after its loop has stopped as s: the digit count and the
\* range checks
scanNumberEnd(buf, start, s) ==
    LET i == s.i
        numericDigits == (i - start) - (IF s.isInt THEN 1 ELSE 0)
                         - (IF s.decimal THEN 1 ELSE 0)
                         - (IF At(buf, start) = "-" THEN 1 ELSE 0)
    IN  IF s.err # "" THEN [i |-> i, err |-> s.err]
        ELSE IF s.isInt /\ (s.decimal \/ s.scientific) THEN [i |-> i, err |-> ErrInvalidNumber]
        ELSE IF numericDigits = 0 THEN [i |-> i, err |-> ErrInvalidNumber]
        ELSE IF s.isInt THEN
            IF At(buf, i - 1) # "i" THEN [i |-> i, err |-> ErrInvalidNumber]
            ELSE IF (i - 1 - start >= maxInt64Digits \/ i - 1 - start >= minInt64Digits)
                    /\ ~parseIntBytes(Slice(buf, start, i - 1))
            THEN [i |-> i, err |-> "unable to parse integer"]
            ELSE [i |-> i, err |-> ""]
        ELSE IF (s.scientific \/ i - start >= maxFloat64Digits \/ i - start >= minFloat64Digits)
                /\ ~parseFloatBytes(Slice(buf, start, i))
        THEN [i |-> i, err |-> "invalid float"]
        ELSE [i |-> i, err |-> ""]

scanNumber(buf, start) ==
    IF start >= Len(buf) THEN [i |-> start, err |-> PANIC]
    ELSE IF At(buf, start) = "-" /\ start + 1 = Len(buf)
    THEN [i |-> start + 1, err |-> ErrInvalidNumber]
    ELSE scanNumberEnd(buf, start,
             scanNumberLoop(buf, start, IF At(buf, start) = "-" THEN start + 1 ELSE start,
                            FALSE, FALSE, FALSE))

RECURSIVE scanBooleanEnd(_, _)
scanBooleanEnd(buf, i) ==
    IF i >= Len(buf) THEN i
    ELSE IF At(buf, i) = "," \/ At(buf, i) = SP THEN i
    ELSE scanBooleanEnd(buf, i + 1)

scanBoolean(buf, start) ==
    LET i == scanBooleanEnd(buf, start + 1)
        first == At(buf, start)
        word == Slice(buf, start, i)
        valid == CASE first = "t" -> word = <<"t", "r", "u", "e">>
                   [] first = "f" -> word = <<"f", "a", "l", "s", "e">>
                   [] first = "T" -> word = <<"T", "R", "U", "E">> \/ word = <<"T", "r", "u", "e">>
                   [] first = "F" -> word = <<"F", "A", "L", "S", "E">>
                                     \/ word = <<"F", "a", "l", "s", "e">>
                   [] OTHER -> FALSE
    IN  IF start >= Len(buf) THEN [i |-> start + 1, err |-> PANIC]
        ELSE IF first \notin {"t", "f", "T", "F"}
        THEN [i |-> start, err |-> "invalid boolean"]
        ELSE IF i - start = 1 THEN [i |-> i, err |-> ""]
        ELSE IF first \in {"t", "T"} /\ i - start # 4 THEN [i |-> i, err |-> "invalid boolean"]
        ELSE IF first \in {"f", "F"} /\ i - start # 5 THEN [i |-> i, err |-> "invalid boolean"]
        ELSE IF ~valid THEN [i |-> i, err |-> "invalid boolean"]
        ELSE [i |-> i, err |-> ""]

RECURSIVE scanFieldsLoop(_, _, _, _, _)

\* scanFields after scanNumber or scanBoolean has returned v for a field value
scanFieldsValue(buf, v, quoted, equals, commas) ==
    IF v.err # ""
    THEN [i |-> v.i, quoted |-> quoted, equals |-> equals, commas |-> commas, err |-> v.err]
    ELSE scanFieldsLoop(buf, v.i, quoted, equals + 1, commas)

\* the scanning loop of scanFields: where it stops, the flags, and an early error
scanFieldsLoop(buf, i, quoted, equals, commas) ==
    LET stop(at, e) == [i |-> at, quoted |-> quoted, equals |-> equals,
                        commas |-> commas, err |-> e]
    IN  IF i >= Len(buf) THEN stop(i, "")
        ELSE IF At(buf, i) = BS /\ i + 1 < Len(buf)
        THEN scanFieldsLoop(buf, i + 2, quoted, equals, commas)
        ELSE IF At(buf, i) = QUOTE /\ equals > commas
        THEN scanFieldsLoop(buf, i + 1, ~quoted, equals, commas)
        ELSE IF At(buf, i) = "=" /\ ~quoted THEN
            IF i < 1 THEN stop(i, PANIC)
            ELSE IF At(buf, i - 1) \in {SP, ","} /\ i < 2 THEN stop(i, PANIC)
            ELSE IF At(buf, i - 1) = SP /\ At(buf, i - 2) # BS THEN stop(i, "missing field key")
            ELSE IF At(buf, i - 1) = "," /\ At(buf, i - 2) # BS THEN stop(i, "missing field key")
            ELSE IF i + 1 >= Len(buf) THEN stop(i, "missing field value")
            ELSE IF At(buf, i + 1) = "," \/ At(buf, i + 1) = SP
            THEN stop(i, "missing field value")
            ELSE IF isNumeric(At(buf, i + 1)) \/ At(buf, i + 1) \in {"-", "N", "n"}
            THEN scanFieldsValue(buf, scanNumber(buf, i + 1), quoted, equals, commas)
            ELSE IF At(buf, i + 1) # QUOTE
            THEN scanFieldsValue(buf, scanBoolean(buf, i + 1), quoted, equals, commas)
            ELSE scanFieldsLoop(buf, i + 1, quoted, equals + 1, commas)
        ELSE IF At(buf, i) = "," /\ ~quoted
        THEN scanFieldsLoop(buf, i + 1, quoted, equals, commas + 1)
        ELSE IF At(buf, i) = SP /\ ~quoted THEN stop(i, "")
        ELSE scanFieldsLoop(buf, i + 1, quoted, equals, commas)

\* scanFields after its loop, begun at start, has stopped as s
scanFieldsEnd(buf, start, s) ==
    LET fields == IF s.err = PANIC THEN <<>> ELSE Slice(buf, start, s.i)
    IN  IF s.err # "" THEN [i |-> s.i, fields |-> fields, err |-> s.err]
        ELSE IF s.quoted THEN [i |-> s.i, fields |-> fields, err |-> "unbalanced quotes"]
        ELSE IF s.equals = 0 \/ s.commas # s.equals - 1
        THEN [i |-> s.i, fields |-> fields, err |-> "invalid field format"]
        ELSE [i |-> s.i, fields |-> fields, err |-> ""]

\* scanFields from start, the first byte after the whitespace
scanFieldsFrom(buf, start) ==
    scanFieldsEnd(buf, start, scanFieldsLoop(buf, start, FALSE, 0, 0))

scanFields(buf, i0) == scanFieldsFrom(buf, skipWhitespace(buf, i0))

RECURSIVE scanTimeLoop(_, _, _)
scanTimeLoop(buf, start, i) ==
    IF i >= Len(buf) THEN [i |-> i, err |-> ""]
    ELSE IF At(buf, i) = NL \/ At(buf, i) = SP THEN [i |-> i, err |-> ""]
    ELSE IF i = start /\ At(buf, i) = "-" THEN scanTimeLoop(buf, start, i + 1)
    ELSE IF At(buf, i) \notin Digits THEN [i |-> i, err |-> "bad timestamp"]
    ELSE scanTimeLoop(buf, start, i + 1)

\* scanTime; no function of the program calls it
scanTime(buf, i0) ==
    LET start == skipWhitespace(buf, i0)
        s == scanTimeLoop(buf, start, start)
    IN  [i |-> s.i, time |-> Slice(buf, start, s.i), err |-> s.err]

-----------------------------------------------------------------------------
(* parseMap, parseLine                                                     *)

\* a map[string]string is a function from keys to values
EmptyMap == [k \in {} |-> <<>>]

Put(m, k, v) == [x \in DOMAIN m \cup {k} |-> IF x = k THEN v ELSE m[x]]

RECURSIVE Index(_, _, _)
\* the least offset >= n of byte c in p, or -1
Index(p, n, c) ==
    IF n >= Len(p) THEN -1
    ELSE IF At(p, n) = c THEN n
    ELSE Index(p, n + 1, c)

RECURSIVE Split(_, _)
\* strings.Split(s, sep) for a one-byte sep
Split(s, sep) ==
    LET i == Index(s, 0, sep)
    IN  IF i = -1 THEN <<s>>
        ELSE <<Slice(s, 0, i)>> \o Split(Slice(s, i + 1, Len(s)), sep)

RECURSIVE parseAssignment(_, _)
\* the inner loop of parseMap on the piece p, searching from offset n0
parseAssignment(p, n0) ==
    LET n == Index(p, n0, "=")
    IN  IF n = -1 THEN [err |-> "wrong format, '=' not found"]
        ELSE IF n - 1 < 0 THEN [err |-> PANIC]
        ELSE IF At(p, n - 1) # BS
        THEN [err |-> "", k |-> Slice(p, 0, n), v |-> Slice(p, n + 1, Len(p))]
        ELSE parseAssignment(p, n + 1)

RECURSIVE parseMapLoop(_, _)
parseMapLoop(pieces, m) ==
    IF pieces = <<>> THEN [err |-> "", m |-> m]
    ELSE LET a == parseAssignment(Head(pieces), 0)
         IN  IF a.err # "" THEN [err |-> a.err, m |-> EmptyMap]
             ELSE parseMapLoop(Tail(pieces), Put(m, a.k, a.v))

parseMap(s) == parseMapLoop(Split(s, ","), EmptyMap)

\* models.MaxKeyLength
MaxKeyLength == 65535

\* what parseLine returns with a non-nil error
failedLine(e) == [key |-> <<>>, fields |-> EmptyMap, timestamp |-> <<>>, err |-> e]

\* parseLine after parseMap has returned m: the timestamp is the rest of the line
parseLineTimestamp(line, key, pos, m) ==
    IF m.err = PANIC THEN failedLine(PANIC)
    ELSE IF m.err # "" THEN failedLine("failed to parse fields")
    ELSE IF pos + 1 > Len(line) THEN failedLine(PANIC)
    ELSE IF Slice(line, pos + 1, Len(line)) = <<>> THEN failedLine("missing timestamp")
    ELSE [key |-> key, fields |-> m.m,
          timestamp |-> Slice(line, pos + 1, Len(line)), err |-> ""]

\* parseLine after scanFields has returned f
parseLineFields(line, key, f) ==
    IF f.err # "" THEN failedLine(f.err)
    ELSE IF Len(f.fields) = 0 THEN failedLine("missing fields")
    ELSE parseLineTimestamp(line, key, f.i, parseMap(f.fields))

\* parseLine after scanKey has returned k
parseLineKey(line, k) ==
    IF k.err # "" THEN failedLine(k.err)
    ELSE IF Len(k.key) = 0 THEN failedLine("missing measurement")
    ELSE IF Len(k.key) > MaxKeyLength THEN failedLine("max key length exceeded")
    ELSE parseLineFields(line, k.key, scanFields(line, k.i))

parseLine(line) == parseLineKey(line, scanKey(line, 0))

-----------------------------------------------------------------------------
(* taggify                                                                 *)

startLine == <<"#", SP, "w", "r", "i", "t", "i", "n", "g", SP, "t", "s", "m", SP,
              "d", "a", "t", "a">>
stopLine == <<"#", SP, "w", "r", "i", "t", "i", "n", "g", SP, "w", "a", "l", SP,
             "d", "a", "t", "a">>

HasPrefix(s, prefix) == Len(s) >= Len(prefix) /\ SubSeq(s, 1, Len(prefix)) = prefix

\* the bytes writeLine hands to the writer
writeLine(line, appendNewline) ==
    IF appendNewline /\ Len(line) > 1 /\ line[Len(line)] # NL
    THEN line \o <<NL>>
    ELSE line

RECURSIVE TrimLeftSet(_, _)
TrimLeftSet(s, cutset) ==
    IF s # <<>> /\ Head(s) \in cutset THEN TrimLeftSet(Tail(s), cutset) ELSE s

RECURSIVE TrimRightSet(_, _)
TrimRightSet(s, cutset) ==
    IF s # <<>> /\ s[Len(s)] \in cutset
    THEN TrimRightSet(SubSeq(s, 1, Len(s) - 1), cutset)
    ELSE s

TrimDoubleQuoteOnly(s, cutset) == TrimRightSet(TrimLeftSet(s, {QUOTE}), {QUOTE})

\* strings.Trim(s, cutset)
Trim(s, cutset) == TrimRightSet(TrimLeftSet(s, cutset), cutset)

mergeKeepFirst(row, fields) ==
    [k \in DOMAIN row \cup DOMAIN fields |-> IF k \in DOMAIN row THEN row[k] ELSE fields[k]]

\* the row after `for k, v := range fields { row[k] = v }`
mergeFields(row, fields) ==
    [k \in DOMAIN row \cup DOMAIN fields |-> IF k \in DOMAIN fields THEN fields[k] ELSE row[k]]

\* entries after the row of (key, timestamp) was looked up or made and merged
addEntry(table, key, timestamp, fields) ==
    LET rows == IF key \in DOMAIN table THEN table[key] ELSE EmptyMap
        row == IF timestamp \in DOMAIN rows THEN rows[timestamp] ELSE EmptyMap
    IN  Put(table, key, Put(rows, timestamp, mergeFields(row, fields)))

RECURSIVE promoteWithoutDelete(_, _, _)
promoteWithoutDelete(line, fields, ns) ==
    IF ns = <<>> THEN [line |-> line, fields |-> fields]
    ELSE LET name == Head(ns)
         IN  IF name \in DOMAIN fields
             THEN promoteWithoutDelete(
                      line \o <<",">> \o name \o <<"=">> \o fields[name], fields, Tail(ns))
             ELSE promoteWithoutDelete(line, fields, Tail(ns))

RECURSIVE promote(_, _, _)
\* the loop over names at emission: the line built so far and the fields left
promote(line, fields, ns) ==
    IF ns = <<>> THEN [line |-> line, fields |-> fields]
    ELSE LET name == Head(ns)
         IN  IF name \in DOMAIN fields
             THEN promote(line \o <<",">> \o name \o <<"=">>
                               \o Trim(fields[name], {QUOTE, "'"}),
                          [k \in DOMAIN fields \ {name} |-> fields[k]], Tail(ns))
             ELSE promote(line, fields, Tail(ns))

RECURSIVE writeFields(_, _, _, _)
\* what the loop over the remaining fields writes, visiting them in `order`
writeFields(line, fields, suffix, order) ==
    IF order = <<>> THEN <<>>
    ELSE writeLine(line \o Head(order) \o <<"=">> \o fields[Head(order)] \o suffix, TRUE)
         \o writeFields(line, fields, suffix, Tail(order))

\* the orders in which a range loop may visit the keys S of a map
Orders(S) == { o \in [1..Cardinality(S) -> S] : \A k \in S : \E n \in DOMAIN o : o[n] = k }

\* the (key, timestamp) pairs of the table
Groups(table) ==
    UNION { { <<key, timestamp>> : timestamp \in DOMAIN table[key] } : key \in DOMAIN table }

-----------------------------------------------------------------------------
(* The input of a run: lines arrive one Scan at a time                     *)

MaxHeader == 1
MaxData == 2
MaxFooter == 1

HeaderLines == { <<"x">>, <<"#", "h">> }
FooterLines == { <<>>, <<"z", "z">> }

idd == <<"i", "d", "d">>

NameLists == { <<>>, <<idd>>, <<<<"g">>, idd>>, <<idd, idd>> }

DataLines ==
    { <<"m", ",", "i", "d", "=", "a", SP, "f", "=", "1", ",", "g", "=", "t", SP, "1">>,
      <<"m", ",", "i", "d", "=", "a", SP, "i", "d", "d", "=", QUOTE, "'", "x", QUOTE, ",",
        "f", "=", "2", SP, "1">>,
      <<"m", ",", "i", "d", "d", "=", "x", ",", "i", "d", "=", "a", SP, "f", "=", "2",
        SP, "1">>,
      <<"m", SP, "i", "d", "d", "=", QUOTE, "y", QUOTE, SP, "2">>,
      <<"m", ",", "i", "d", "d", "=", "x", SP, "i", "d", "d", "=", QUOTE, "y", QUOTE, ",",
        "f", "=", "1", SP, "1">>,
      <<"m", SP, "f", "=", "1", SP, "x">>,
      <<"m", SP, "f", "=", "1">>,
      <<"m", SP, "f", "=", "1", SP>> }

RECURSIVE IndexOfPrefix(_, _, _)
\* the least position >= k of a line of `lines` that starts with prefix, or 0
IndexOfPrefix(lines, prefix, k) ==
    IF k > Len(lines) THEN 0
    ELSE IF HasPrefix(lines[k], prefix) THEN k
    ELSE IndexOfPrefix(lines, prefix, k + 1)

\* the positions in `consumed` of the start and the stop marker (0: not read yet)
StartAt == IndexOfPrefix(consumed, startLine, 1)
StopAt == IF StartAt = 0 THEN 0 ELSE IndexOfPrefix(consumed, stopLine, StartAt + 1)

HeaderRead == IF StartAt = 0 THEN consumed ELSE SubSeq(consumed, 1, StartAt)
DataRead ==
    IF StartAt = 0 THEN <<>>
    ELSE SubSeq(consumed, StartAt + 1, IF StopAt = 0 THEN Len(consumed) ELSE StopAt - 1)
FooterRead == IF StopAt = 0 THEN <<>> ELSE SubSeq(consumed, StopAt, Len(consumed))

Idle ==
    /\ names = <<>>
    /\ consumed = <<>>
    /\ entries = EmptyMap
    /\ pending = {}
    /\ out = <<>>
    /\ text = <<>>
    /\ err = ""

Init ==
    /\ arg = [fn |-> "taggify"]
    /\ ret = [err |-> NONE]
    /\ pc = "header"
    /\ names \in NameLists
    /\ consumed = <<>>
    /\ entries = EmptyMap
    /\ pending = {}
    /\ out = <<>>
    /\ text = <<>>
    /\ err = ""

\* sc.Scan() returns a line of the header section, which is written through
ScanHeader(line) ==
    /\ pc = "header"
    /\ HasPrefix(line, startLine) \/ Len(consumed) < MaxHeader
    /\ consumed' = Append(consumed, line)
    /\ text' = line
    /\ out' = out \o writeLine(line, TRUE)
    /\ pc' = IF HasPrefix(line, startLine) THEN "data" ELSE "header"
    /\ UNCHANGED <<arg, ret, names, entries, pending, err>>

\* the input ends inside the header or the data section
UnexpectedEnd ==
    /\ pc \in {"header", "data"}
    /\ err' = IF pc = "header"
              THEN "unexpected end of input while reading header section"
              ELSE "unexpected end of input while reading data section"
    /\ pc' = "done"
    /\ UNCHANGED <<arg, ret, names, consumed, entries, pending, out, text>>

\* the data loop once parseLine has returned p for the line read: an error
\* ends taggify, a parsed line is merged into entries
AddParsed(p) ==
    IF p.err = PANIC
    THEN /\ err' = PANIC
         /\ pc' = "done"
         /\ UNCHANGED <<entries, pending>>
    ELSE IF p.err # ""
    THEN /\ err' = "failed to parse line"
         /\ pc' = "done"
         /\ UNCHANGED <<entries, pending>>
    ELSE /\ entries' = addEntry(entries, p.key, p.timestamp, p.fields)
         /\ UNCHANGED <<pc, pending, err>>

ScanDataSkippingBadLines(line) ==
    /\ pc = "data"
    /\ HasPrefix(line, stopLine) \/ Len(DataRead) < MaxData
    /\ consumed' = Append(consumed, line)
    /\ text' = line
    /\ IF HasPrefix(line, stopLine)
       THEN /\ pending' = Groups(entries)
            /\ pc' = IF Groups(entries) = {} THEN "footer" ELSE "emit"
            /\ UNCHANGED <<entries, err>>
       ELSE LET p == parseLine(line)
            IN  IF p.err # ""
                THEN UNCHANGED <<pc, entries, pending, err>>
                ELSE /\ entries' = addEntry(entries, p.key, p.timestamp, p.fields)
                     /\ UNCHANGED <<pc, pending, err>>
    /\ UNCHANGED <<arg, ret, names, out>>

\* sc.Scan() returns a line of the data section: the stop marker ends the
\* section, any other line is parsed and merged into entries
ScanData(line) ==
    /\ pc = "data"
    /\ HasPrefix(line, stopLine) \/ Len(DataRead) < MaxData
    /\ consumed' = Append(consumed, line)
    /\ text' = line
    /\ IF HasPrefix(line, stopLine)
       THEN /\ pending' = Groups(entries)
            /\ pc' = IF Groups(entries) = {} THEN "footer" ELSE "emit"
            /\ UNCHANGED <<entries, err>>
       ELSE AddParsed(parseLine(line))
    /\ UNCHANGED <<arg, ret, names, out>>

\* one round of the loops over entries and rows: the group's promoted fields
\* leave its map and join the key, and each field left is written as a line
EmitGroup(g) ==
    /\ pc = "emit"
    /\ g \in pending
    /\ LET key == g[1]
           timestamp == g[2]
           p == promote(key, entries[key][timestamp], names)
           suffix == IF timestamp # <<>> THEN <<SP>> \o timestamp ELSE <<>>
       IN  /\ \E order \in Orders(DOMAIN p.fields) :
                out' = out \o writeFields(p.line \o <<SP>>, p.fields, suffix, order)
           /\ entries' = [entries EXCEPT ![key][timestamp] = p.fields]
    /\ pending' = pending \ {g}
    /\ pc' = IF pending' = {} THEN "footer" ELSE "emit"
    /\ UNCHANGED <<arg, ret, names, consumed, text, err>>

\* the footer loop when sc.Scan() returns another line
ScanFooter(line) ==
    /\ pc = "footer"
    /\ Len(FooterRead) - 1 < MaxFooter
    /\ consumed' = Append(consumed, line)
    /\ text' = line
    /\ out' = out \o writeLine(line, TRUE)
    /\ UNCHANGED <<arg, ret, pc, names, entries, pending, err>>

\* the footer loop when the input has ended
EndOfInput ==
    /\ pc = "footer"
    /\ out' = out \o writeLine(text, FALSE)
    /\ pc' = "done"
    /\ UNCHANGED <<arg, ret, names, consumed, entries, pending, text, err>>

Next ==
    \/ \E line \in HeaderLines \cup {startLine} : ScanHeader(line)
    \/ UnexpectedEnd
    \/ \E line \in DataLines \cup {stopLine} : ScanData(line)
    \/ \E g \in pending : EmitGroup(g)
    \/ \E line \in FooterLines : ScanFooter(line)
    \/ EndOfInput

Spec == Init /\ [][Next]_vars

-----------------------------------------------------------------------------
(* Keys handed to scanKey                                                  *)

MaxTags == 3

Measurements == { <<"m">>, <<SP, "c", BS, ",", "p">> }
TagNames == { <<"a">>, <<"b">>, <<"a", "b">>, <<"a", BS, "=">> }
TagValues == { <<"1">>, <<BS, ",", "2">> }
Tags == [name : TagNames, value : TagValues]

\* the sequences over S of length 0..n
SeqsUpTo(S, n) == UNION { [1..k -> S] : k \in 0..n }

Segment(t) == t.name \o <<"=">> \o t.value

RECURSIVE JoinTags(_)
\* ,name=value for each tag in order (halving keeps the evaluation shallow)
JoinTags(tags) ==
    IF tags = <<>> THEN <<>>
    ELSE IF Len(tags) = 1 THEN <<",">> \o Segment(tags[1])
    ELSE JoinTags(SubSeq(tags, 1, Len(tags) \div 2))
         \o JoinTags(SubSeq(tags, Len(tags) \div 2 + 1, Len(tags)))

FieldsTail == <<SP, "f", "=", "1">>

\* the line whose key is measurement[,tag=value...]
KeyBuf(measurement, tags) == measurement \o JoinTags(tags) \o FieldsTail

KeyArgs == [fn : {"scanKey"}, measurement : Measurements, tags : SeqsUpTo(Tags, MaxTags)]

InitKey ==
    /\ arg \in KeyArgs
    /\ ret = [err |-> NONE]
    /\ pc = "call"
    /\ Idle

CallScanKey ==
    /\ arg.fn = "scanKey"
    /\ pc = "call"
    /\ ret' = scanKey(KeyBuf(arg.measurement, arg.tags), 0)
    /\ pc' = "return"
    /\ UNCHANGED <<arg, names, consumed, entries, pending, out, text, err>>

NextKey == CallScanKey

SpecKey == InitKey /\ [][NextKey]_vars

-----------------------------------------------------------------------------
(* Lines handed to parseLine                                               *)

LineKeys ==
    { <<"m">>,
      <<"m", ",", "a", "=", "1">>,
      <<"m", ",", "b", "=", "1", ",", "a", "=", "2">> }

LineFields ==
    { <<"f", "=", "1">>,
      <<"f", "=", "1", ",", "g", "=", "t">>,
      <<"s", "=", QUOTE, "x", SP, "y", QUOTE>>,
      <<"i", "=", "-", "1", "2", "i", ",", "f", "=", "1", ".", "5", "e", "3">>,
      <<"b", "=", "F", "A", "L", "S", "E">>,
      <<"s", "=", QUOTE, "x", ",", "y", QUOTE>>,
      <<"s", "=", QUOTE, "a", "=", "b", QUOTE>>,
      <<"s", "=", QUOTE, "x", ",", "=", "y", QUOTE>>,
      <<"a", BS, "=", "=", "t", ",", "f", "=", "1">>,
      <<"a", BS, ",", "b", "=", "1">> }

\* what follows the last field value: nothing, one space, or a space and a token
LineTails == { <<>>, <<SP>>, <<SP, "1", "5">>, <<SP, "-", "5">>, <<SP, "1", "x">> }

LineArgs == [fn : {"parseLine"}, key : LineKeys, fields : LineFields, tail : LineTails]

LineOf(a) == a.key \o <<SP>> \o a.fields \o a.tail

InitLine ==
    /\ arg \in LineArgs
    /\ ret = [err |-> NONE]
    /\ pc = "call"
    /\ Idle

CallParseLine ==
    /\ arg.fn = "parseLine"
    /\ pc = "call"
    /\ ret' = parseLine(LineOf(arg))
    /\ pc' = "return"
    /\ UNCHANGED <<arg, names, consumed, entries, pending, out, text, err>>

NextLine == CallParseLine

SpecLine == InitLine /\ [][NextLine]_vars

-----------------------------------------------------------------------------
(* Claims about scanKey                                                    *)

DistinctNames(tags) ==
    \A i, j \in 1..Len(tags) : i # j => tags[i].name # tags[j].name

Ascending(tags) ==
    \A i \in 1..(Len(tags) - 1) : Compare(tags[i].name, tags[i + 1].name) < 0

Reorder(tags, p) == [k \in 1..Len(tags) |-> tags[p[k]]]

Reorderings(tags) == { Reorder(tags, p) : p \in Permutations(1..Len(tags)) }

\* the tags in ascending byte order of name
SortedTags(tags) == CHOOSE s \in Reorderings(tags) : Ascending(s)

TrimLeft(measurement) == Slice(measurement, skipWhitespace(measurement, 0), Len(measurement))

ScannedKey == arg.fn = "scanKey" /\ pc = "return"

\* C1: for a key whose tag names are pairwise distinct, scanKey succeeds and
\* returns the measurement followed by the tag segments in ascending byte
\* order of name; every permutation of the tags gives the same bytes, and an
\* ascending input comes back unchanged.
C1_CanonicalKey ==
    (ScannedKey /\ DistinctNames(arg.tags)) =>
        /\ ret.err = ""
        /\ ret.key = TrimLeft(arg.measurement) \o JoinTags(SortedTags(arg.tags))
        /\ \A q \in Reorderings(arg.tags) :
              LET other == scanKey(KeyBuf(arg.measurement, q), 0)
              IN  other.err = "" /\ other.key = ret.key
        /\ Ascending(arg.tags) =>
              ret.key = TrimLeft(arg.measurement) \o JoinTags(arg.tags)

\* three distinct tags given in an order that is not ascending were scanned
C1_Witness ==
    /\ ScannedKey
    /\ Len(arg.tags) = 3
    /\ DistinctNames(arg.tags)
    /\ ~Ascending(arg.tags)
    /\ ret.err = ""

HasDuplicateName(tags) == ~DistinctNames(tags)

\* C2: a key with two tags of the same name, at any two positions, makes
\* scanKey return the duplicate-tags error.
C2_DuplicateTags ==
    (ScannedKey /\ HasDuplicateName(arg.tags)) => ret.err = "duplicate tags"

\* the first and the last of three tags share a name, the middle one sorts
\* before them, and the scan is over
C2_Witness ==
    /\ ScannedKey
    /\ Len(arg.tags) = 3
    /\ arg.tags[1].name = arg.tags[3].name
    /\ Compare(arg.tags[2].name, arg.tags[1].name) < 0
    /\ ret.err = "duplicate tags"

-----------------------------------------------------------------------------
(* Claims about taggify and parseLine                                      *)

\* what parseLine returns for each data line read so far
Parsed == [k \in 1..Len(DataRead) |-> parseLine(DataRead[k])]

\* the data lines read that parsed to the given key and timestamp
LinesOf(key, timestamp) ==
    { k \in 1..Len(DataRead) :
        Parsed[k].err = "" /\ Parsed[k].key = key /\ Parsed[k].timestamp = timestamp }

\* the last line of L that has a field called name
LastWith(L, name) ==
    CHOOSE k \in L : /\ name \in DOMAIN Parsed[k].fields
                     /\ \A j \in L : name \in DOMAIN Parsed[j].fields => j <= k

\* the union of the fields of the lines L, each with its last value
UnionOfFields(L) ==
    [name \in UNION { DOMAIN Parsed[k].fields : k \in L } |->
        Parsed[LastWith(L, name)].fields[name]]

\* the (key, timestamp) pairs of the data lines read that parsed
ParsedGroups ==
    { <<Parsed[k].key, Parsed[k].timestamp>> :
        k \in { j \in 1..Len(DataRead) : Parsed[j].err = "" } }

\* no group has been through the emission loops yet
BeforeEmission == pc = "data" \/ (pc = "emit" /\ pending = Groups(entries))

\* C3: once taggify has consumed a sequence of data lines, each group (key,
\* timestamp) holds exactly the union of the field names of the lines with
\* that key and timestamp, each name with the value of the last line that
\* has it.
C3_MergedFields ==
    BeforeEmission =>
        /\ Groups(entries) = ParsedGroups
        /\ \A g \in ParsedGroups : entries[g[1]][g[2]] = UnionOfFields(LinesOf(g[1], g[2]))

\* two lines of one group were consumed: they give one field different
\* values, and the first has a field the second lacks
C3_Witness ==
    /\ BeforeEmission
    /\ \E g \in ParsedGroups :
          LET L == LinesOf(g[1], g[2])
          IN  /\ L = {1, 2}
              /\ \E n \in DOMAIN Parsed[1].fields \cap DOMAIN Parsed[2].fields :
                    Parsed[1].fields[n] # Parsed[2].fields[n]
              /\ DOMAIN Parsed[1].fields \ DOMAIN Parsed[2].fields # {}

Quotes == {QUOTE, "'"}

RECURSIVE Unquoted(_)
\* a value without the quote characters around it
Unquoted(v) ==
    IF v # <<>> /\ Head(v) \in Quotes THEN Unquoted(Tail(v))
    ELSE IF v # <<>> /\ v[Len(v)] \in Quotes THEN Unquoted(SubSeq(v, 1, Len(v) - 1))
    ELSE v

NameSet == { names[k] : k \in DOMAIN names }

\* the promoted names a field map has, each once, in caller order
PresentNames(fields) ==
    SelectSeq([k \in DOMAIN names |->
                  IF names[k] \in DOMAIN fields /\ \A j \in 1..(k - 1) : names[j] # names[k]
                  THEN names[k] ELSE <<>>],
              LAMBDA n : n # <<>>)

RECURSIVE TagsFor(_, _)
\* ",name=value" for each of the names ns, the value unquoted
TagsFor(fields, ns) ==
    IF ns = <<>> THEN <<>>
    ELSE <<",">> \o Head(ns) \o <<"=">> \o Unquoted(fields[Head(ns)]) \o TagsFor(fields, Tail(ns))

\* the line of field n of a group: augmented key, the field, the timestamp
LineFor(g, fields, n) ==
    g[1] \o TagsFor(fields, PresentNames(fields)) \o <<SP>> \o n \o <<"=">> \o fields[n]
         \o <<SP>> \o g[2]

RECURSIVE LinesIn(_, _, _, _)
LinesIn(g, fields, order, k) ==
    IF k > Len(order) THEN <<>>
    ELSE LineFor(g, fields, order[k]) \o <<NL>> \o LinesIn(g, fields, order, k + 1)

\* a step of the emission loops that visits group g
Visits(g) == pc = "emit" /\ g \in pending /\ pending' = pending \ {g}

\* C4: at emission each promoted name that the group's field map has is
\* removed from the map and appended to the key, in caller order, as
\* ,name=value with the quotes around the value stripped; a name the map
\* lacks changes nothing; then one line is written per field left: the
\* augmented key, that field, the group's timestamp.
C4_PromoteAndEmit ==
    [][\A g \in pending : Visits(g) =>
          LET fields == entries[g[1]][g[2]]
              left == DOMAIN fields \ NameSet
          IN  /\ entries' = [entries EXCEPT ![g[1]][g[2]] = [n \in left |-> fields[n]]]
              /\ \E order \in Orders(left) : out' = out \o LinesIn(g, fields, order, 1)]_vars

\* what the merged field map of group g was when emission began
MergedFields(g) == UnionOfFields(LinesOf(g[1], g[2]))

\* a group was emitted that had two of the promoted names, one of them with
\* a quoted value, and a field that is not promoted
C4_Witness ==
    /\ pc \in {"emit", "footer"}
    /\ Len(names) = 2
    /\ \E g \in ParsedGroups \ pending :
          /\ NameSet \subseteq DOMAIN MergedFields(g)
          /\ \E n \in NameSet : Head(MergedFields(g)[n]) = QUOTE
          /\ DOMAIN MergedFields(g) \ NameSet # {}

RECURSIVE Concat(_)
Concat(ss) == IF ss = <<>> THEN <<>> ELSE Head(ss) \o Concat(Tail(ss))

\* the bytes the header loop has written
HeaderWritten == Concat([k \in 1..Len(HeaderRead) |-> writeLine(HeaderRead[k], TRUE)])

Drop(s, n) == SubSeq(s, n + 1, Len(s))

\* the lines of a byte string in which each line ends with a newline
TerminatedLines(s) == LET pieces == Split(s, NL) IN SubSeq(pieces, 1, Len(pieces) - 1)

\* the emission loops are over and the footer loop has not written yet
EmissionOver == pc = "footer" /\ StopAt = Len(consumed)

\* the data lines written, in the order written (read when EmissionOver)
EmittedLines == TerminatedLines(Drop(out, Len(HeaderWritten)))

\* C5 (as claimed): no two data lines written are byte-identical.
C5_NoRepeatedLine ==
    EmissionOver =>
        \A i, j \in 1..Len(EmittedLines) : i # j => EmittedLines[i] # EmittedLines[j]

\* C6 (as claimed): every group of the table yields at least one written line.
C6_EveryGroupEmits ==
    [][\A g \in pending : Visits(g) => out' # out]_vars

\* C6 (amended): a group yields at least one written line exactly when it has
\* a field whose name is not among the promoted names; a group all of whose
\* fields are promoted yields no line.
C6_GroupEmitsIffFieldLeft ==
    [][\A g \in pending : Visits(g) =>
          (out' # out <=> DOMAIN entries[g[1]][g[2]] \ NameSet # {})]_vars

\* emission is over for two groups, one with a field that is not promoted and
\* one whose only field is promoted
C6_Witness ==
    /\ EmissionOver
    /\ \E g, h \in ParsedGroups :
          /\ DOMAIN MergedFields(g) \ NameSet # {}
          /\ DOMAIN MergedFields(h) \subseteq NameSet

\* a timestamp token: decimal digits after an optional leading '-'
IsTimestampToken(t) ==
    LET digits == IF t # <<>> /\ Head(t) = "-" THEN Tail(t) ELSE t
    IN  \A k \in 1..Len(digits) : digits[k] \in Digits

\* C7 (as claimed): a line whose timestamp token has a byte that is no digit
\* is rejected, so no such text is a timestamp of the aggregation table.
C7_TimestampsValidated ==
    \A g \in Groups(entries) : IsTimestampToken(g[2]) /\ scanTime(g[2], 0).err = ""

CalledParseLine == arg.fn = "parseLine" /\ pc = "return"

\* C8 (as claimed): parseLine, given a valid key and valid fields and no
\* timestamp (the line ends after the last field value or after one space
\* more), returns the missing-timestamp error.
C8_MissingTimestamp ==
    (CalledParseLine /\ arg.tail \in {<<>>, <<SP>>}) => ret.err = "missing timestamp"

\* a step of the data loop that reads a line other than the stop marker
ReadsDataLine == pc = "data" /\ Len(consumed') = Len(consumed) + 1 /\ ~HasPrefix(text', stopLine)

\* C9: the step that reads a data line that fails to parse ends taggify with
\* an error, parsing and writing nothing more: the table and the output are
\* left as they were, and nothing happens after taggify has returned; no
\* data line is written before the stop marker is read, so the output then
\* holds the header lines only.
C9_AbortOnFirstBadLine ==
    /\ [](StopAt = 0 => out = HeaderWritten)
    /\ [][/\ pc # "done"
          /\ (ReadsDataLine /\ parseLine(text').err \notin {"", PANIC}) =>
                /\ pc' = "done"
                /\ err' = "failed to parse line"
                /\ entries' = entries
                /\ out' = out]_vars

\* a first data line was merged into the table and the second failed to parse
C9_Witness ==
    /\ pc = "done"
    /\ err = "failed to parse line"
    /\ Len(DataRead) = 2
    /\ Groups(entries) # {}
    /\ out = HeaderWritten

RECURSIVE JoinLines(_)
\* the lines with a newline between each two
JoinLines(lines) ==
    IF lines = <<>> THEN <<>>
    ELSE IF Len(lines) = 1 THEN lines[1]
    ELSE Head(lines) \o <<NL>> \o JoinLines(Tail(lines))

HasSuffix(s, suffix) ==
    Len(s) >= Len(suffix) /\ SubSeq(s, Len(s) - Len(suffix) + 1, Len(s)) = suffix

\* C10 (as claimed): on a successful run the output begins with the header
\* lines up to and including the start marker, and ends with the stop marker
\* line followed by every line after it, each once, in order and unchanged.
C10_Passthrough ==
    (pc = "done" /\ err = "") =>
        /\ HasPrefix(out, JoinLines(HeaderRead) \o <<NL>>)
        /\ \/ HasSuffix(out, <<NL>> \o JoinLines(FooterRead))
           \/ HasSuffix(out, <<NL>> \o JoinLines(FooterRead) \o <<NL>>)

-----------------------------------------------------------------------------
(* Tokens handed to scanNumber                                             *)

NumSigns == { <<>>, <<"-">>, <<"+">> }

NumDigits ==
    { <<>>, <<"0">>, <<"4", "2">>, <<"0", "0", "7">>,
      MaxInt64, MinInt64, <<"0", "0">> \o MaxInt64, <<"0", "0">> \o MinInt64,
      <<"9", "2", "2", "3", "3", "7", "2", "0", "3", "6", "8", "5", "4", "7", "7",
        "5", "8", "0", "9">>,
      <<"1", "0", "0", "0", "0", "0", "0", "0", "0", "0", "0", "0", "0", "0", "0",
        "0", "0", "0", "0", "0">> }

\* what follows the digits inside the token
NumRests ==
    { <<>>, <<"i">>, <<"i", "i">>, <<"i", "5">>, <<".", "i">>, <<".", "5", "i">>,
      <<"e", "3", "i">>, <<"i", "e">>, <<"i", ".">>, <<"i", "N">>, <<".", "5">> }

\* what follows the token in the buffer
NumTails == { <<>>, <<",", "g", "=", "1">>, <<SP, "1">> }

NumArgs == [fn : {"scanNumber"}, sign : NumSigns, digits : NumDigits,
            rest : NumRests, tail : NumTails]

NumToken(a) == a.sign \o a.digits \o a.rest

\* the token as scanFields meets it: right after the '=' of its field
NumBuf(a) == <<"=">> \o NumToken(a) \o a.tail

InitNumber ==
    /\ arg \in NumArgs
    /\ ret = [err |-> NONE]
    /\ pc = "call"
    /\ Idle

CallScanNumber ==
    /\ arg.fn = "scanNumber"
    /\ pc = "call"
    /\ ret' = scanNumber(NumBuf(arg), 1)
    /\ pc' = "return"
    /\ UNCHANGED <<arg, names, consumed, entries, pending, out, text, err>>

NextNumber == CallScanNumber

SpecNumber == InitNumber /\ [][NextNumber]_vars

-----------------------------------------------------------------------------
(* Claims about scanNumber                                                 *)

CalledScanNumber == arg.fn = "scanNumber" /\ pc = "return"

HasByte(s, c) == \E k \in 1..Len(s) : s[k] = c

RECURSIVE DigitsValue(_, _)
\* the number a string of at most seven decimal digits denotes
DigitsValue(s, acc) ==
    IF s = <<>> THEN acc ELSE DigitsValue(Tail(s), acc * 10 + (ByteOf(Head(s)) - 48))

RECURSIVE PadLeft(_, _)
PadLeft(s, n) == IF Len(s) >= n THEN s ELSE PadLeft(<<"0">> \o s, n)

\* the digits denote a magnitude of at most 2^63 - 1, or 2^63 under a '-'
\* (2^63 = 92233 7203685 4775808, compared in three groups of digits)
InInt64Range(neg, digits) ==
    LET d == stripZeros(digits)
        p == PadLeft(d, 19)
        hi == DigitsValue(SubSeq(p, 1, 5), 0)
        mid == DigitsValue(SubSeq(p, 6, 12), 0)
        lo == DigitsValue(SubSeq(p, 13, 19), 0)
    IN  /\ Len(d) <= 19
        /\ \/ hi < 92233
           \/ hi = 92233 /\ mid < 7203685
           \/ hi = 92233 /\ mid = 7203685 /\ lo <= (IF neg THEN 4775808 ELSE 4775807)

\* an optional '-', one or more decimal digits, 'i' as the last byte, and a
\* value inside the signed 64-bit range
IsIntegerLiteral(token) ==
    LET neg == token # <<>> /\ Head(token) = "-"
        body == IF neg THEN Tail(token) ELSE token
        digits == SubSeq(body, 1, Len(body) - 1)
    IN  /\ Len(body) >= 2
        /\ body[Len(body)] = "i"
        /\ \A k \in 1..Len(digits) : digits[k] \in Digits
        /\ InInt64Range(neg, digits)

\* C11: scanNumber accepts a token that has the integer marker 'i' exactly
\* when the token is an optional '-', one or more digits and a final 'i', and
\* the digits denote a value inside the signed 64-bit range.
C11_IntegerTokens ==
    (CalledScanNumber /\ HasByte(NumToken(arg), "i")) =>
        (ret.err = "" <=> IsIntegerLiteral(NumToken(arg)))

\* a well-formed integer token whose value is one past the least 64-bit
\* integer was scanned and rejected
C11_Witness ==
    /\ CalledScanNumber
    /\ arg.sign = <<"-">>
    /\ Len(arg.digits) = 19
    /\ arg.rest = <<"i">>
    /\ ret.err = "unable to parse integer"

-----------------------------------------------------------------------------
(* Field sections handed to scanFields                                     *)

MaxFields == 2

\* the pieces between the separating commas of a field section
FieldPieces ==
    { <<"a", "=", "1">>,
      <<"f", "=", "1", ".", "5">>,
      <<"s", "=", QUOTE, "x", QUOTE>>,
      <<"s", "=", QUOTE, "x", ",", "y", "=", QUOTE>>,
      <<"a", BS, "=", "=", "t">>,
      <<"b">>,
      <<"k", "=">>,
      <<"=", "1">>,
      <<"a", "=", QUOTE, "x", QUOTE, "=", QUOTE, "y", QUOTE>> }

FieldsTails == { <<>>, <<SP, "1">> }

FieldsArgs == [fn : {"scanFields"},
               pieces : SeqsUpTo(FieldPieces, MaxFields) \ {<<>>},
               tail : FieldsTails]

RECURSIVE JoinPieces(_)
JoinPieces(pieces) ==
    IF Len(pieces) = 1 THEN pieces[1]
    ELSE Head(pieces) \o <<",">> \o JoinPieces(Tail(pieces))

\* the line of measurement m whose field section is the pieces joined by commas
FieldsBuf(a) == <<"m", SP>> \o JoinPieces(a.pieces) \o a.tail

InitFields ==
    /\ arg \in FieldsArgs
    /\ ret = [err |-> NONE]
    /\ pc = "call"
    /\ Idle

\* parseLine's call of scanFields, at the offset where scanKey stopped
CallScanFields ==
    /\ arg.fn = "scanFields"
    /\ pc = "call"
    /\ ret' = scanFields(FieldsBuf(arg), 1)
    /\ pc' = "return"
    /\ UNCHANGED <<arg, names, consumed, entries, pending, out, text, err>>

NextFields == CallScanFields

SpecFields == InitFields /\ [][NextFields]_vars

-----------------------------------------------------------------------------
(* Claims about scanFields                                                 *)

CalledScanFields == arg.fn = "scanFields" /\ pc = "return"

RECURSIVE EqualsSigns(_, _, _)
\* the offsets in piece, from k on, of each '=' that is neither escaped nor
\* inside a quoted value (quotes count once a '=' has been met)
EqualsSigns(piece, k, quoted) ==
    IF k >= Len(piece) THEN {}
    ELSE IF At(piece, k) = BS THEN EqualsSigns(piece, k + 2, quoted)
    ELSE IF At(piece, k) = QUOTE /\ (quoted \/ \E j \in 0..(k - 1) : At(piece, j) = "=")
    THEN EqualsSigns(piece, k + 1, ~quoted)
    ELSE IF At(piece, k) = "=" /\ ~quoted
    THEN {k} \cup EqualsSigns(piece, k + 1, quoted)
    ELSE EqualsSigns(piece, k + 1, quoted)

\* key=value with a non-empty key, one '=' and a non-empty value
IsAssignment(piece) ==
    /\ Cardinality(EqualsSigns(piece, 0, FALSE)) = 1
    /\ \A k \in EqualsSigns(piece, 0, FALSE) : k > 0 /\ k + 1 < Len(piece)

\* C12 (as claimed): a field section scanFields accepts is a comma-separated
\* list of assignments, each with a non-empty key, one '=' and a non-empty
\* value.
C12_AcceptedFieldsWellFormed ==
    (CalledScanFields /\ ret.err = "") =>
        \A k \in 1..Len(arg.pieces) : IsAssignment(arg.pieces[k])

-----------------------------------------------------------------------------
(* Claims about parseMap inside parseLine                                  *)

RECURSIVE FirstSeparator(_, _, _, _)
\* the offset, from k on, of the first ',' of a field section that is neither
\* escaped nor inside a quoted value, or the length of the section
FirstSeparator(section, k, quoted, inValue) ==
    IF k >= Len(section) THEN Len(section)
    ELSE IF At(section, k) = BS THEN FirstSeparator(section, k + 2, quoted, inValue)
    ELSE IF At(section, k) = QUOTE /\ inValue
    THEN FirstSeparator(section, k + 1, ~quoted, inValue)
    ELSE IF At(section, k) = "=" /\ ~quoted
    THEN FirstSeparator(section, k + 1, quoted, TRUE)
    ELSE IF At(section, k) = "," /\ ~quoted THEN k
    ELSE FirstSeparator(section, k + 1, quoted, inValue)

RECURSIVE Assignments(_)
\* the field assignments of a field section, in order
Assignments(section) ==
    LET c == FirstSeparator(section, 0, FALSE, FALSE)
    IN  IF c >= Len(section) THEN <<section>>
        ELSE <<Slice(section, 0, c)>> \o Assignments(Slice(section, c + 1, Len(section)))

\* the offset of the '=' between the key and the value of an assignment
Separator(piece) == CHOOSE k \in EqualsSigns(piece, 0, FALSE) : TRUE

KeyText(piece) == Slice(piece, 0, Separator(piece))
ValueText(piece) == Slice(piece, Separator(piece) + 1, Len(piece))

\* one entry per assignment of the section: key text to raw value text
FieldsOf(section) ==
    LET as == Assignments(section)
    IN  [key \in { KeyText(as[k]) : k \in DOMAIN as } |->
            ValueText(as[CHOOSE k \in DOMAIN as : KeyText(as[k]) = key])]

\* scanKey and scanFields accept the line, every piece of its field section
\* is an assignment, and a timestamp follows
AcceptedLine ==
    /\ scanKey(LineOf(arg), 0).err = ""
    /\ scanFields(LineOf(arg), scanKey(LineOf(arg), 0).i).err = ""
    /\ \A k \in DOMAIN Assignments(arg.fields) : IsAssignment(Assignments(arg.fields)[k])
    /\ arg.tail \notin {<<>>, <<SP>>}

\* C13 (as claimed): for a line whose key and field section are accepted,
\* parseLine returns without error a field map with one entry per field
\* assignment, each key text mapped to its raw value text.
C13_FieldMapPreserved ==
    (CalledParseLine /\ AcceptedLine) =>
        /\ ret.err = ""
        /\ ret.fields = FieldsOf(arg.fields)

-----------------------------------------------------------------------------
(* Keys of many tags handed to scanKey                                     *)

MaxTagCount == 101

\* every small number of tags, and the numbers around the doubled capacity
TagCounts ==
    0..MaxTagCount \cup {2 * IndicesLen - 1, 2 * IndicesLen, 2 * IndicesLen + 1}

DigitChars == <<"0", "1", "2", "3", "4", "5", "6", "7", "8", "9">>

\* the k-th tag name: three decimal digits, ascending with k
NumberedName(k) ==
    <<DigitChars[(k \div 100) + 1], DigitChars[((k \div 10) % 10) + 1], DigitChars[(k % 10) + 1]>>

\* n tags with distinct names in ascending order
NumberedTags(n) == [k \in 1..n |-> [name |-> NumberedName(k), value |-> <<"v">>]]

ManyTagsArgs ==
    { [fn |-> "scanKey", measurement |-> <<"m">>, tags |-> NumberedTags(n)] : n \in TagCounts }

InitManyTags ==
    /\ arg \in ManyTagsArgs
    /\ ret = [err |-> NONE]
    /\ pc = "call"
    /\ Idle

SpecManyTags == InitManyTags /\ [][NextKey]_vars

-----------------------------------------------------------------------------
(* Claims about the tag index list                                         *)

\* C14 (as claimed): scanKey scans a well-formed key of any number of tags
\* without an out-of-range access to the index list, also when the number of
\* tags equals the capacity of the list.
C14_IndexListHasRoom ==
    (ScannedKey /\ DistinctNames(arg.tags)) =>
        /\ ret.err = ""
        /\ ret.key = arg.measurement \o JoinTags(arg.tags)

-----------------------------------------------------------------------------
(* Claims about the tags of the lines written                              *)

\* the tag names in the key of a written line, in the order written
TagNamesOf(line) ==
    LET segments == Split(scanTo(line, 0, SP), ",")
    IN  [k \in 1..Len(segments) - 1 |-> scanTo(segments[k + 1], 0, "=")]

\* C15 (as claimed): the key of every data line written has pairwise distinct
\* tag names, for any input and any list of promoted names, also when the
\* parsed key already has a tag named like a promoted field or a name is
\* supplied more than once.
C15_WrittenTagNamesDistinct ==
    EmissionOver =>
        \A n \in 1..Len(EmittedLines) :
            LET tagNames == TagNamesOf(EmittedLines[n])
            IN  \A i, j \in 1..Len(tagNames) : i # j => tagNames[i] # tagNames[j]

====
